---- MODULE Spec2Model ----
(***************************************************************************)
(* Model of the weather lookup page of app.py: the two pure helpers        *)
(* get_weather_info and get_color_from_temp, and one browser session of    *)
(* the script, which is re-run from the top on every user interaction.     *)
(*                                                                         *)
(* Texts of the source are Korean; the model uses an English gloss of      *)
(* each description and a name for each emoji.                             *)
(* Temperatures are fixed-point integers: a temperature of d degrees       *)
(* Celsius is the integer d * TempScale.                                   *)
(* Latitudes and longitudes are in tenths of a degree.                     *)
(***************************************************************************)
EXTENDS Integers, Sequences, FiniteSets, TLC

VARIABLES
    pc,               \* position of the running script
    session_state,    \* st.session_state: function from keys to values
    city_input,       \* value of the text input of the current run
    geo_response,     \* what the geocoding request of this run produced
    weather_response, \* what the weather request of this run produced
    trace,            \* requests, responses, helper calls and st.* output of this run, in order
    calls,            \* helper calls of this run: [fn, arg, result]
    deck,             \* the pydeck chart of this run: <<>> or <<its properties>>
    i,                \* forecast loop index (line 186)
    exc               \* exception raised in this run, "none" if none

vars == <<pc, session_state, city_input, geo_response, weather_response,
          trace, calls, deck, i, exc>>

---------------------------------------------------------------------------
(* Bounds of the model *)

TempScale == 2
MaxBelow == 5
MaxTempC == 32
MaxNeg == 2
MaxCode == 101
MaxDays == 8

(* Program constants *)

ForecastDays == 7

Deg(d) == d * TempScale

Temps == (0 - Deg(MaxBelow))..Deg(MaxTempC)

HugeCode == 9999

Codes == ((0 - MaxNeg)..MaxCode) \cup {HugeCode}

---------------------------------------------------------------------------
(* get_weather_info, lines 17-44 *)

(* the table with its last entry left out *)
weather_codes_short ==
    (0 :> <<"clear", "sun">>) @@
    (1 :> <<"mostly clear", "sun_small_cloud">>) @@
    (2 :> <<"partly cloudy", "sun_behind_cloud">>) @@
    (3 :> <<"overcast", "cloud">>) @@
    (45 :> <<"fog", "fog">>) @@
    (48 :> <<"rime fog", "fog">>) @@
    (51 :> <<"light drizzle", "sun_rain_cloud">>) @@
    (53 :> <<"moderate drizzle", "sun_rain_cloud">>) @@
    (55 :> <<"heavy drizzle", "sun_rain_cloud">>) @@
    (61 :> <<"light rain", "rain_cloud">>) @@
    (63 :> <<"moderate rain", "rain_cloud">>) @@
    (65 :> <<"heavy rain", "rain_cloud">>) @@
    (71 :> <<"light snow", "snow_cloud">>) @@
    (73 :> <<"moderate snow", "snow_cloud">>) @@
    (75 :> <<"heavy snow", "snow_cloud">>) @@
    (80 :> <<"light showers", "rain_cloud">>) @@
    (81 :> <<"moderate showers", "rain_cloud">>) @@
    (82 :> <<"heavy showers", "rain_cloud">>) @@
    (95 :> <<"thunderstorm", "thunder_rain_cloud">>) @@
    (96 :> <<"thunderstorm with light hail", "thunder_rain_cloud">>)

weather_codes ==
    (0 :> <<"clear", "sun">>) @@
    (1 :> <<"mostly clear", "sun_small_cloud">>) @@
    (2 :> <<"partly cloudy", "sun_behind_cloud">>) @@
    (3 :> <<"overcast", "cloud">>) @@
    (45 :> <<"fog", "fog">>) @@
    (48 :> <<"rime fog", "fog">>) @@
    (51 :> <<"light drizzle", "sun_rain_cloud">>) @@
    (53 :> <<"moderate drizzle", "sun_rain_cloud">>) @@
    (55 :> <<"heavy drizzle", "sun_rain_cloud">>) @@
    (61 :> <<"light rain", "rain_cloud">>) @@
    (63 :> <<"moderate rain", "rain_cloud">>) @@
    (65 :> <<"heavy rain", "rain_cloud">>) @@
    (71 :> <<"light snow", "snow_cloud">>) @@
    (73 :> <<"moderate snow", "snow_cloud">>) @@
    (75 :> <<"heavy snow", "snow_cloud">>) @@
    (80 :> <<"light showers", "rain_cloud">>) @@
    (81 :> <<"moderate showers", "rain_cloud">>) @@
    (82 :> <<"heavy showers", "rain_cloud">>) @@
    (95 :> <<"thunderstorm", "thunder_rain_cloud">>) @@
    (96 :> <<"thunderstorm with light hail", "thunder_rain_cloud">>) @@
    (99 :> <<"thunderstorm with heavy hail", "thunder_rain_cloud">>)

Fallback == <<"unknown", "question_mark">>

(* the lookup guarded by the truth value of the code: code 0 is falsy *)
get_weather_info_falsy(code) ==
    IF code # 0 /\ code \in DOMAIN weather_codes THEN weather_codes[code] ELSE Fallback

(* dict.get without its default: None (here <<>>) for an unmapped code *)
get_weather_info_nodefault(code) ==
    IF code \in DOMAIN weather_codes THEN weather_codes[code] ELSE <<>>

get_weather_info(code) ==
    IF code \in DOMAIN weather_codes THEN weather_codes[code] ELSE Fallback

(* get_color_from_temp, lines 46-61 *)

(* the bounds taken as exclusive *)
get_color_from_temp_lt(temp) ==
    IF temp < Deg(0) THEN <<0, 0, 255, 160>>
    ELSE IF temp < Deg(10) THEN <<100, 149, 237, 160>>
    ELSE IF temp < Deg(20) THEN <<0, 255, 0, 160>>
    ELSE IF temp < Deg(25) THEN <<255, 255, 0, 160>>
    ELSE IF temp < Deg(30) THEN <<255, 165, 0, 160>>
    ELSE <<255, 0, 0, 160>>

(* the last band left opaque *)
get_color_from_temp_opaque(temp) ==
    IF temp <= Deg(0) THEN <<0, 0, 255, 160>>
    ELSE IF temp <= Deg(10) THEN <<100, 149, 237, 160>>
    ELSE IF temp <= Deg(20) THEN <<0, 255, 0, 160>>
    ELSE IF temp <= Deg(25) THEN <<255, 255, 0, 160>>
    ELSE IF temp <= Deg(30) THEN <<255, 165, 0, 160>>
    ELSE <<255, 0, 0, 255>>

get_color_from_temp(temp) ==
    IF temp <= Deg(0) THEN <<0, 0, 255, 160>>
    ELSE IF temp <= Deg(10) THEN <<100, 149, 237, 160>>
    ELSE IF temp <= Deg(20) THEN <<0, 255, 0, 160>>
    ELSE IF temp <= Deg(25) THEN <<255, 255, 0, 160>>
    ELSE IF temp <= Deg(30) THEN <<255, 165, 0, 160>>
    ELSE <<255, 0, 0, 160>>

Call(fn, arg, result) == [fn |-> fn, arg |-> arg, result |-> result]

---------------------------------------------------------------------------
(* The external services: what a request can produce *)

CityInputs == {"", "Seoul", "Busan"}

Location(has, lat, lon) == [has_coords |-> has, latitude |-> lat, longitude |-> lon]

Locations ==
    { Location(TRUE, 376, 1270), Location(TRUE, 351, 1291), Location(FALSE, 0, 0) }

GeoResponse(status, has, results) ==
    [status |-> status, has_results |-> has, results |-> results]

NoGeoResponse == GeoResponse("none", FALSE, <<>>)

GeoResponses ==
    { GeoResponse(s, FALSE, <<>>) : s \in {"conn_error", "http_error", "bad_json", "ok"} }
    \cup { GeoResponse("ok", TRUE, <<>>) }
    \cup { GeoResponse("ok", TRUE, <<l>>) : l \in Locations }

ApiCodes == <<0, 3, 61, 99, 4, 100>>

Week(start) == [k \in 1..MaxDays |-> ApiCodes[((start + k) % Len(ApiCodes)) + 1]]

WeekStarts == {0}

WeatherResponse(status, has_current, temp, code, has_daily, daily) ==
    [status |-> status, has_current |-> has_current, temperature |-> temp,
     weathercode |-> code, has_daily |-> has_daily, daily |-> daily]

NoWeatherResponse == WeatherResponse("none", FALSE, 0, 0, FALSE, <<>>)

WeatherResponses ==
    { WeatherResponse(s, FALSE, 0, 0, FALSE, <<>>) :
        s \in {"conn_error", "http_error", "bad_json", "ok"} }
    \cup { WeatherResponse("ok", TRUE, t, ApiCodes[c], FALSE, <<>>) :
             t \in Temps, c \in 1..Len(ApiCodes) }
    \cup { WeatherResponse("ok", TRUE, t, ApiCodes[c], TRUE, SubSeq(Week(w), 1, n)) :
             t \in Temps, c \in 1..Len(ApiCodes), w \in WeekStarts, n \in 0..MaxDays }

(* requests.get / raise_for_status / response.json: the exception a response *)
(* status raises. A body that is not JSON raises requests' InvalidJSONError  *)
(* (a RequestException) or, with an older requests, a plain ValueError.      *)
Raises(status) ==
    IF status = "conn_error" THEN {"ConnectionError"}
    ELSE IF status = "http_error" THEN {"HTTPError"}
    ELSE IF status = "bad_json" THEN {"InvalidJSONError", "ValueError"}
    ELSE {}

RequestExceptions == {"ConnectionError", "HTTPError", "InvalidJSONError"}

(* the exception a request raises, "none" when it returns a JSON body *)
Raised(status) == IF Raises(status) = {} THEN {"none"} ELSE Raises(status)

(* except clauses, lines 201-204: the first clause that matches runs *)
Handle(tr, e) ==
    IF e \in RequestExceptions
      THEN Append(tr, "st.error:api")
      ELSE Append(tr, "st.error:generic")

---------------------------------------------------------------------------
(* One browser session *)

Init ==
    /\ pc = "idle"
    /\ session_state = [k \in {} |-> FALSE]
    /\ city_input = "Seoul"
    /\ geo_response = NoGeoResponse
    /\ weather_response = NoWeatherResponse
    /\ trace = <<>>
    /\ calls = <<>>
    /\ deck = <<>>
    /\ i = 0
    /\ exc = "none"

(* lines 70-71 *)
InitSession(ss) ==
    IF "city_searched" \in DOMAIN ss THEN ss ELSE [k \in {"city_searched"} |-> FALSE]

(* lines 64-73: a run starts: the page is cleared, the flag is initialised  *)
(* once per session, the text input yields its default on the first run and *)
(* the user's text afterwards.                                              *)
ScriptStart ==
    /\ pc \in {"idle", "done"}
    /\ session_state' = InitSession(session_state)
    /\ city_input' \in (IF pc = "idle" THEN {"Seoul"} ELSE CityInputs)
    /\ geo_response' = NoGeoResponse
    /\ weather_response' = NoWeatherResponse
    /\ trace' = <<>>
    /\ calls' = <<>>
    /\ deck' = <<>>
    /\ i' = 0
    /\ exc' = "none"
    /\ pc' = "input"

(* the flag left as it is *)
MarkSearched_skip(ss) == ss

(* line 78 *)
MarkSearched(ss) == [ss EXCEPT !["city_searched"] = TRUE]

(* lines 75-80: non-empty input: set the flag, enter the try block *)
SearchBranch ==
    /\ pc = "input"
    /\ city_input # ""
    /\ session_state' = MarkSearched(session_state)
    /\ pc' = "geo_send"
    /\ UNCHANGED <<city_input, geo_response, weather_response, trace, calls, deck, i, exc>>

(* lines 205-240: empty input: the whole-country default map *)
DefaultDeck ==
    [latitude |-> 365, longitude |-> 1278, zoom |-> 6, pitch |-> 0,
     radius |-> 100000, color |-> <<100, 100, 100, 100>>, pickable |-> FALSE]

DefaultBranch ==
    /\ pc = "input"
    /\ city_input = ""
    /\ trace' = trace \o <<"st.info", "st.subheader:default", "st.pydeck_chart:default">>
    /\ deck' = <<DefaultDeck>>
    /\ pc' = "done"
    /\ UNCHANGED <<session_state, city_input, geo_response, weather_response, calls, i, exc>>

(* lines 83-84: the geocoding request is issued; requests.get blocks *)
GeoSend ==
    /\ pc = "geo_send"
    /\ trace' = Append(trace, "request:geocoding")
    /\ pc' = "geo_wait"
    /\ UNCHANGED <<session_state, city_input, geo_response, weather_response,
                   calls, deck, i, exc>>

(* the not-found branch without its else: the lookup goes on after the message *)
GeoReturn_noelse(resp, e) ==
    /\ geo_response' = resp
    /\ LET tr == IF resp.status = "conn_error"
                   THEN trace ELSE Append(trace, "response:geocoding")
       IN
       IF resp.status # "ok" THEN
           /\ exc' = e
           /\ trace' = Handle(tr, e)
           /\ pc' = "done"
       ELSE IF (~resp.has_results) \/ resp.results = <<>> THEN
           /\ exc' = exc
           /\ trace' = Append(tr, "st.error:notfound")
           /\ pc' = "weather_send"
       ELSE IF ~resp.results[1].has_coords THEN
           /\ exc' = "KeyError"
           /\ trace' = Handle(tr, "KeyError")
           /\ pc' = "done"
       ELSE
           /\ exc' = exc
           /\ trace' = Append(tr, "st.subheader")
           /\ pc' = "weather_send"
    /\ UNCHANGED <<session_state, city_input, weather_response, calls, deck, i>>

(* the not-found branch raising after its message: the generic handler adds a second one *)
GeoReturn_raise(resp, e) ==
    /\ geo_response' = resp
    /\ LET tr == IF resp.status = "conn_error"
                   THEN trace ELSE Append(trace, "response:geocoding")
       IN
       IF resp.status # "ok" THEN
           /\ exc' = e
           /\ trace' = Handle(tr, e)
           /\ pc' = "done"
       ELSE IF (~resp.has_results) \/ resp.results = <<>> THEN
           /\ exc' = "ValueError"
           /\ trace' = Handle(Append(tr, "st.error:notfound"), "ValueError")
           /\ pc' = "done"
       ELSE IF ~resp.results[1].has_coords THEN
           /\ exc' = "KeyError"
           /\ trace' = Handle(tr, "KeyError")
           /\ pc' = "done"
       ELSE
           /\ exc' = exc
           /\ trace' = Append(tr, "st.subheader")
           /\ pc' = "weather_send"
    /\ UNCHANGED <<session_state, city_input, weather_response, calls, deck, i>>

(* lines 84-95: the geocoding request returns or raises; raise_for_status, JSON *)
(* body, the not-found message, or the first result and the subheader.       *)
GeoReturn(resp, e) ==
    /\ geo_response' = resp
    /\ LET tr == IF resp.status = "conn_error"
                   THEN trace ELSE Append(trace, "response:geocoding")
       IN
       IF resp.status # "ok" THEN
           /\ exc' = e
           /\ trace' = Handle(tr, e)
           /\ pc' = "done"
       ELSE IF (~resp.has_results) \/ resp.results = <<>> THEN
           /\ exc' = exc
           /\ trace' = Append(tr, "st.error:notfound")
           /\ pc' = "done"
       ELSE IF ~resp.results[1].has_coords THEN
           /\ exc' = "KeyError"
           /\ trace' = Handle(tr, "KeyError")
           /\ pc' = "done"
       ELSE
           /\ exc' = exc
           /\ trace' = Append(tr, "st.subheader")
           /\ pc' = "weather_send"
    /\ UNCHANGED <<session_state, city_input, weather_response, calls, deck, i>>

GeoRecv ==
    /\ pc = "geo_wait"
    /\ \E resp \in GeoResponses : \E e \in Raised(resp.status) : GeoReturn(resp, e)

(* lines 98-105: the weather request is issued; requests.get blocks *)
WeatherSend ==
    /\ pc = "weather_send"
    /\ trace' = Append(trace, "request:weather")
    /\ pc' = "weather_wait"
    /\ UNCHANGED <<session_state, city_input, geo_response, weather_response,
                   calls, deck, i, exc>>

(* lines 135-148: the view and the marker of the city map *)
CityDeck(ss, lat, lon, color) ==
    [latitude |-> IF ss["city_searched"] THEN lat ELSE 365,
     longitude |-> IF ss["city_searched"] THEN lon ELSE 1278,
     zoom |-> IF ss["city_searched"] THEN 10 ELSE 6,
     pitch |-> 50,
     radius |-> IF ss["city_searched"] THEN 1000 ELSE 50000,
     color |-> color,
     pickable |-> TRUE]

(* lines 105-184: the weather request returns or raises; raise_for_status,   *)
(* body, current weather, the city map, the forecast header and columns.    *)
WeatherReturn(resp, e) ==
    /\ weather_response' = resp
    /\ LET tr0 == IF resp.status = "conn_error"
                    THEN trace ELSE Append(trace, "response:weather")
           tr1 == Append(tr0, "st.header:current")
           info == get_weather_info(resp.weathercode)
           color == get_color_from_temp(resp.temperature)
           loc == geo_response.results[1]
           cl == <<Call("get_weather_info", resp.weathercode, info),
                   Call("get_color_from_temp", resp.temperature, color)>>
           tr2 == tr1 \o <<"call:get_weather_info", "st.metric",
                           "call:get_color_from_temp", "st.pydeck_chart",
                           "st.header:forecast">>
       IN
       IF resp.status # "ok" THEN
           /\ exc' = e
           /\ trace' = Handle(tr0, e)
           /\ pc' = "done"
           /\ UNCHANGED <<calls, deck>>
       ELSE IF ~resp.has_current THEN
           /\ exc' = "KeyError"
           /\ trace' = Handle(tr1, "KeyError")
           /\ pc' = "done"
           /\ UNCHANGED <<calls, deck>>
       ELSE
           /\ calls' = calls \o cl
           /\ deck' = <<CityDeck(session_state, loc.latitude, loc.longitude, color)>>
           /\ IF ~resp.has_daily THEN
                  /\ exc' = "KeyError"
                  /\ trace' = Handle(tr2, "KeyError")
                  /\ pc' = "done"
              ELSE
                  /\ exc' = exc
                  /\ trace' = Append(tr2, "st.columns")
                  /\ pc' = "forecast"
    /\ UNCHANGED <<session_state, city_input, geo_response, i>>

WeatherRecv ==
    /\ pc = "weather_wait"
    /\ \E resp \in WeatherResponses : \E e \in Raised(resp.status) : WeatherReturn(resp, e)

(* lines 186-199: one iteration of the forecast loop *)
ForecastDay ==
    /\ pc = "forecast"
    /\ i < ForecastDays
    /\ IF i + 1 > Len(weather_response.daily) THEN
           /\ exc' = "IndexError"
           /\ trace' = Handle(trace, "IndexError")
           /\ pc' = "done"
           /\ UNCHANGED <<calls, i>>
       ELSE
           LET code == weather_response.daily[i + 1]
           IN
           /\ calls' = Append(calls, Call("get_weather_info", code, get_weather_info(code)))
           /\ trace' = trace \o <<"call:get_weather_info", "st.write:day">>
           /\ i' = i + 1
           /\ pc' = IF i + 1 = ForecastDays THEN "done" ELSE "forecast"
           /\ exc' = exc
    /\ UNCHANGED <<session_state, city_input, geo_response, weather_response, deck>>

Next ==
    \/ ScriptStart
    \/ SearchBranch
    \/ DefaultBranch
    \/ GeoSend
    \/ GeoRecv
    \/ WeatherSend
    \/ WeatherRecv
    \/ ForecastDay

Spec == Init /\ [][Next]_vars

---------------------------------------------------------------------------
(* The two helpers called directly, on every input of the bounded sets *)

CallGetWeatherInfo ==
    /\ \E code \in Codes :
         /\ calls' = <<Call("get_weather_info", code, get_weather_info(code))>>
         /\ trace' = <<"call:get_weather_info">>
    /\ UNCHANGED <<pc, session_state, city_input, geo_response, weather_response,
                   deck, i, exc>>

CallGetColorFromTemp ==
    /\ \E temp \in Temps :
         /\ calls' = <<Call("get_color_from_temp", temp, get_color_from_temp(temp))>>
         /\ trace' = <<"call:get_color_from_temp">>
    /\ UNCHANGED <<pc, session_state, city_input, geo_response, weather_response,
                   deck, i, exc>>

NextFn == CallGetWeatherInfo \/ CallGetColorFromTemp

SpecFn == Init /\ [][NextFn]_vars

---------------------------------------------------------------------------
(* Properties *)

Has(tr, ev) == \E k \in 1..Len(tr) : tr[k] = ev

Count(tr, evs) == Cardinality({k \in 1..Len(tr) : tr[k] \in evs})

(* every occurrence of an event of evs in tr has ev somewhere before it *)
Preceded(tr, evs, ev) ==
    \A k \in 1..Len(tr) : tr[k] \in evs => \E j \in 1..(k - 1) : tr[j] = ev

ColorCalls == {k \in 1..Len(calls) : calls[k].fn = "get_color_from_temp"}

InfoCalls == {k \in 1..Len(calls) : calls[k].fn = "get_weather_info"}

Blue == <<0, 0, 255, 160>>
LightBlue == <<100, 149, 237, 160>>
Green == <<0, 255, 0, 160>>
Yellow == <<255, 255, 0, 160>>
Orange == <<255, 165, 0, 160>>
Red == <<255, 0, 0, 160>>

(* C1: get_color_from_temp(t) is the colour of exactly one of the six bands,  *)
(* chosen by inclusive upper bounds: t <= 0 blue, 0 < t <= 10 light blue,      *)
(* 10 < t <= 20 green, 20 < t <= 25 yellow, 25 < t <= 30 orange, t > 30 red;  *)
(* 0 is blue, just above 0 light blue, 30 orange, just above 30 red.          *)
C1_Bands ==
    \A k \in ColorCalls :
        LET t == calls[k].arg
            r == calls[k].result
        IN
        /\ Cardinality({b \in {Blue, LightBlue, Green, Yellow, Orange, Red} : r = b}) = 1
        /\ (t <= Deg(0)) <=> (r = Blue)
        /\ (Deg(0) < t /\ t <= Deg(10)) <=> (r = LightBlue)
        /\ (Deg(10) < t /\ t <= Deg(20)) <=> (r = Green)
        /\ (Deg(20) < t /\ t <= Deg(25)) <=> (r = Yellow)
        /\ (Deg(25) < t /\ t <= Deg(30)) <=> (r = Orange)
        /\ (Deg(30) < t) <=> (r = Red)
        /\ (t = Deg(0)) => (r = Blue)
        /\ (t = Deg(0) + 1) => (r = LightBlue)
        /\ (t = Deg(30)) => (r = Orange)
        /\ (t = Deg(30) + 1) => (r = Red)

C1_Witness ==
    \E k \in ColorCalls : calls[k].arg = Deg(30) /\ calls[k].result = Orange

(* C2: for every code that is a key of the table, get_weather_info returns   *)
(* the pair the table gives it and never the fallback pair; code 0 gives the *)
(* clear-sky description with the sun, code 61 light rain with the rain      *)
(* cloud.                                                                    *)
C2_TableHit ==
    \A k \in InfoCalls :
        LET c == calls[k].arg
            r == calls[k].result
        IN
        /\ (c \in DOMAIN weather_codes) => (r = weather_codes[c] /\ r # Fallback)
        /\ (c = 0) => (r = <<"clear", "sun">>)
        /\ (c = 61) => (r = <<"light rain", "rain_cloud">>)

C2_Witness ==
    \E k \in InfoCalls : calls[k].arg = 0 /\ calls[k].result = <<"clear", "sun">>

GapCodes == {4, 50, 56, 77, 85, 97}

(* C3: for every integer code that is not a key of the table (-1, 100, 9999, *)
(* the gaps 4, 50, 56, 77, 85, 97) get_weather_info returns the one fallback *)
(* pair, raises nothing and changes no state.                                *)
C3_Fallback ==
    /\ \A k \in InfoCalls :
         LET c == calls[k].arg
             r == calls[k].result
         IN
         /\ (c \notin DOMAIN weather_codes) => (r = Fallback)
         /\ (c \in GapCodes \cup {0 - 1, 100, HugeCode}) => (r = Fallback)
    /\ exc = "none"
    /\ DOMAIN session_state = {}

C3_Witness ==
    \E k \in InfoCalls : calls[k].arg = HugeCode /\ calls[k].result = Fallback

ClearSky == {0, 1}
Cloud == {2, 3}
Fog == {45, 48}
Drizzle == {51, 53, 55}
Rain == {61, 63, 65}
Snow == {71, 73, 75}
Showers == {80, 81, 82}
Thunderstorm == {95, 96, 99}

Categories == {ClearSky, Cloud, Fog, Drizzle, Rain, Snow, Showers, Thunderstorm}

(* every key has one pair of two texts, and the keys are those of the eight *)
(* categories, each category present                                        *)
TableShape ==
    /\ \A c \in DOMAIN weather_codes : Len(weather_codes[c]) = 2
    /\ DOMAIN weather_codes \subseteq UNION Categories
    /\ \A cat \in Categories : cat \cap DOMAIN weather_codes # {}
    /\ \A k \in InfoCalls :
         calls[k].arg \in UNION Categories => calls[k].result = weather_codes[calls[k].arg]

(* C4 as stated: the table has exactly 20 entries, one pair per code, over *)
(* the eight categories.                                                   *)
C4_TwentyEntries ==
    /\ Cardinality(DOMAIN weather_codes) = 20
    /\ TableShape

(* C4 as amended: the table has exactly 21 entries, one pair per code, over *)
(* the eight categories clear sky, cloud, fog, drizzle, rain, snow, showers *)
(* and thunderstorm.                                                        *)
C4_TwentyOneEntries ==
    /\ Cardinality(DOMAIN weather_codes) = 21
    /\ DOMAIN weather_codes = UNION Categories
    /\ TableShape

C4_Witness ==
    \E k \in InfoCalls :
        /\ calls[k].arg = 99
        /\ calls[k].result = <<"thunderstorm with heavy hail", "thunder_rain_cloud">>

(* C5: every colour get_color_from_temp returns has four channels, alpha 160 *)
(* and red, green, blue in 0..255; so the colour of the marker of every city *)
(* map has alpha 160.                                                        *)
C5_Alpha ==
    /\ \A k \in ColorCalls :
         LET r == calls[k].result
         IN
         /\ Len(r) = 4
         /\ r[4] = 160
         /\ \A ch \in 1..3 : r[ch] \in 0..255
    /\ Has(trace, "st.pydeck_chart") =>
         /\ Len(deck) = 1
         /\ Len(deck[1].color) = 4
         /\ deck[1].color[4] = 160

C5_Witness ==
    /\ Has(trace, "st.pydeck_chart")
    /\ deck # <<>>
    /\ deck[1].color = Red
    /\ \E k \in ColorCalls : calls[k].arg = Deg(30) + 1

Requests == {"request:geocoding", "request:weather"}

HelperCalls == {"call:get_weather_info", "call:get_color_from_temp"}

(* what the page shows from the weather response *)
WeatherDataOutput ==
    {"st.header:current", "st.metric", "st.pydeck_chart", "st.header:forecast",
     "st.columns", "st.write:day"}

(* the weather output of a lookup: the location subheader and the above *)
WeatherOutput == {"st.subheader"} \cup WeatherDataOutput

ErrorMessages == {"st.error:notfound", "st.error:api", "st.error:generic"}

GeoFound ==
    /\ geo_response.status = "ok"
    /\ geo_response.has_results
    /\ geo_response.results # <<>>

(* at most two requests in a run, none twice, geocoding first, the weather *)
(* request only after a geocoding response with a non-empty result set     *)
RequestOrder ==
    /\ Count(trace, Requests) <= 2
    /\ Count(trace, {"request:geocoding"}) <= 1
    /\ Count(trace, {"request:weather"}) <= 1
    /\ Preceded(trace, {"request:weather"}, "request:geocoding")
    /\ Preceded(trace, {"request:weather"}, "response:geocoding")
    /\ Has(trace, "request:weather") => GeoFound
    /\ Has(trace, "request:weather") => trace[1] = "request:geocoding"

C7_NoPartialResult ==
    (pc = "done" /\ exc # "none") =>
        /\ Count(trace, ErrorMessages) = 1
        /\ trace[Len(trace)] \in ErrorMessages
        /\ Count(trace, {"request:geocoding"}) <= 1
        /\ Count(trace, {"request:weather"}) <= 1
        /\ Count(trace, WeatherOutput) = 0

(* C9: a geocoding response without results ends the run with the one       *)
(* not-found message: no weather request, no helper call, no output, no map *)
(* and no message of an exception handler.                                  *)
C9_NotFound ==
    (geo_response.status = "ok" /\ ~GeoFound) =>
        /\ pc = "done"
        /\ exc = "none"
        /\ trace = <<"request:geocoding", "response:geocoding", "st.error:notfound">>
        /\ calls = <<>>
        /\ deck = <<>>
        /\ weather_response = NoWeatherResponse

C9_Witness ==
    /\ geo_response = GeoResponse("ok", TRUE, <<>>)
    /\ Has(trace, "st.error:notfound")
    /\ pc = "done"

Initialised == "city_searched" \in DOMAIN session_state

Searched == Initialised /\ session_state["city_searched"]

====
